---- MODULE Spec2Model ----
(***************************************************************************)
(* A model of the image viewer's file service (src/main.rs): the delete    *)
(* and rename handlers and the backup step (create_backup) they run before *)
(* the destructive filesystem call.                                        *)
(*                                                                         *)
(* The handlers are async functions with no await in them, served by the   *)
(* multi-threaded tokio runtime, so requests run concurrently and the      *)
(* filesystem calls of different requests interleave.  Every filesystem    *)
(* call of the source is one action here and may fail with an I/O error.   *)
(*                                                                         *)
(* Text (file contents, file names, hash strings) is a sequence of chunks; *)
(* a chunk is a tagged tuple:                                              *)
(*    <<"nl">>       the newline character                                 *)
(*    <<"dot">>      the character '.'                                     *)
(*    <<"ch", s>>    the characters of s (no '.', no newline)              *)
(*    <<"h8", k>>    hex characters 0..7 of a SHA-256 digest               *)
(*    <<"h56", c>>   hex characters 8..63 of the digest of content c       *)
(* A path is a sequence of file names, relative to the served root.        *)
(***************************************************************************)
EXTENDS Naturals, Sequences, FiniteSets, TLC

VARIABLES
    dirs,       \* the directories that exist (a set of paths)
    files,      \* the regular files: path -> content
    pc,         \* pc[r]: the next filesystem call of request context r
    req,        \* req[r]: the request r is serving (kind, path, new_path)
    file_hash,  \* file_hash[r]: create_backup's local file_hash
    status,     \* status[r]: the status of r's last response
    issued,     \* the number of requests received so far
    limit,      \* the number of requests this run receives
    index_file, \* index_file[r]: create_backup's local index_file (a handle)
    result,     \* result[r]: what r's create_backup returned
    log,        \* log[r]: the calls r made for its current request, in order
    pre,        \* pre[r]: the backup files there were when r's create_backup began
    removed,    \* the files delete requests removed: (directory, content)
    backup_failed, \* whether some create_backup call returned an error
    seq,        \* two create_backup calls in sequence (see SeqStep)
    error,      \* error[r]: the io::Error r's create_backup returned, "" for none
    rejected,   \* the request a handler has just rejected, and the status it gave
    listing,    \* the last response of list_directory_handler
    current_directory, \* AppState.current_directory
    no_sidecar  \* no_sidecar[r]: there was no sidecar when the call of
                \* create_backup that r made by itself began

vars == <<dirs, files, pc, req, file_hash, status, issued, limit, index_file,
          result, log, pre, removed, backup_failed, seq, error, rejected,
          listing, current_directory, no_sidecar>>

\* The worker contexts that serve requests concurrently.
Procs == {"p1", "p2"}

\* The number of requests the model receives in one run: of the concurrent
\* service, and of the service with one worker.
MaxRequests == 2
MaxSeqRequests == 3

\* The number of calls of create_backup made directly, one after another.
MaxCalls == 3

\* The number of delete and rename requests received while directories are
\* listed.
MaxListRequests == 1

---------------------------------------------------------------------------
(* Text *)

NL == <<"nl">>
DOT == <<"dot">>
Ch(s) == <<"ch", s>>

\* str::lines(): the pieces between newlines; a final empty piece is dropped.
RECURSIVE LinesFrom(_, _)
LinesFrom(s, cur) ==
    IF s = <<>> THEN (IF cur = <<>> THEN <<>> ELSE <<cur>>)
    ELSE IF Head(s) = NL THEN <<cur>> \o LinesFrom(Tail(s), <<>>)
    ELSE LinesFrom(Tail(s), Append(cur, Head(s)))

Lines(s) == LinesFrom(s, <<>>)

\* The set of s's lines.
LineSet(s) == {Lines(s)[i] : i \in 1..Len(Lines(s))}

\* The number of s's lines equal to l.
CountLines(s, l) == Cardinality({i \in 1..Len(Lines(s)) : Lines(s)[i] = l})

---------------------------------------------------------------------------
(* File names and paths *)

SAFETY_NET == <<DOT, Ch("safety_net")>>
INDEX_TXT == <<Ch("index"), DOT, Ch("txt")>>

\* The position of the last '.' of a name, 0 when it has none.
LastDot(name) ==
    LET ds == {i \in 1..Len(name) : name[i] = DOT}
    IN  IF ds = {} THEN 0 ELSE CHOOSE i \in ds : \A j \in ds : j <= i

\* Path::file_stem: the name up to its last '.', the whole name when it has
\* no '.' or only a leading one.
FileStem(name) ==
    IF LastDot(name) <= 1 THEN name ELSE SubSeq(name, 1, LastDot(name) - 1)

\* Path::extension().unwrap_or(""): what follows the last '.', empty when
\* the name has no '.' or only a leading one.
FileExtension(name) ==
    IF LastDot(name) <= 1 THEN <<>>
    ELSE SubSeq(name, LastDot(name) + 1, Len(name))

FileName(path) == path[Len(path)]

\* Path::parent for a path that has one.
Parent(path) == SubSeq(path, 1, Len(path) - 1)

\* (mutant) Every path is taken to have a parent: parent().unwrap_or("").
HasParent_Always(path) == TRUE

\* Path::parent is None for the empty path.
HasParent(path) == Len(path) > 0

BackupDir(path) == Append(Parent(path), SAFETY_NET)

\* (mutant) The index is kept next to the file: parent_dir.join("index.txt").
IndexPath_InParent(path) == Append(Parent(path), INDEX_TXT)

IndexPath(path) == Append(BackupDir(path), INDEX_TXT)

---------------------------------------------------------------------------
(* Hashing *)

\* The first 8 hex characters of the digest of content c.  A 32-bit prefix
\* is not collision free: contents that begin with the same chunk share it.
Prefix8(c) ==
    IF c = <<>> THEN "e3b0c442"
    ELSE IF c[1][1] = "ch" THEN c[1][2]
    ELSE "1dx"

\* calculate_file_hash on content c: the lowercase hex SHA-256 digest, 64
\* characters in two chunks.  The digest is collision resistant: distinct
\* contents have distinct digests.
Sha256Hex(c) == << <<"h8", Prefix8(c)>>, <<"h56", c>> >>

\* &file_hash[..8]
HashPrefix(h) == SubSeq(h, 1, 1)

\* (mutant) Every backup gets the fallback suffix.
BackupFilename_AlwaysBak(name, h) ==
    FileStem(name) \o <<Ch("_")>> \o HashPrefix(h) \o <<DOT, Ch("bak")>>

\* The backup file name create_backup derives.
BackupFilename(name, h) ==
    IF FileExtension(name) = <<>>
    THEN FileStem(name) \o <<Ch("_")>> \o HashPrefix(h) \o <<DOT, Ch("bak")>>
    ELSE FileStem(name) \o <<Ch("_")>> \o HashPrefix(h) \o <<DOT>>
             \o FileExtension(name)

BackupPath(path, h) == Append(BackupDir(path), BackupFilename(FileName(path), h))

---------------------------------------------------------------------------
(* The filesystem the service starts on, and the requests it receives *)

D == << <<Ch("d")>> >>
A_JPG == Append(D, <<Ch("a"), DOT, Ch("jpg")>>)
B_JPG == Append(D, <<Ch("b"), DOT, Ch("jpg")>>)
C_JPG == Append(D, <<Ch("c"), DOT, Ch("jpg")>>)

\* Two contents whose digests share their first 8 hex characters.
X1 == <<Ch("x"), Ch("1")>>
X2 == <<Ch("x"), Ch("2")>>

InitFiles == (A_JPG :> X1) @@ (B_JPG :> X1) @@ (C_JPG :> X2)

\* The paths a delete request may name: the pictures, the files the backup
\* step itself writes for a.jpg, and a directory.
DeletePaths ==
    {A_JPG, B_JPG, C_JPG, IndexPath(A_JPG), BackupPath(A_JPG, Sha256Hex(X1)), D}

\* The (old_path, new_name) pairs a rename request may carry; new_name is a
\* relative path.
RenameInputs ==
    {<<C_JPG, <<FileName(A_JPG)>> >>, <<B_JPG, <<FileName(A_JPG)>> >>}

\* (mutant) Nothing is found to exist.
exists_Never(path) == FALSE

exists(path) == path \in dirs \/ path \in DOMAIN files
is_file(path) == path \in DOMAIN files

\* The files with path p removed.
Without(f, p) == [q \in DOMAIN f \ {p} |-> f[q]]

\* The files with path p holding content c.
With(f, p, c) == [q \in DOMAIN f \cup {p} |-> IF q = p THEN c ELSE f[q]]

NoRequest == [kind |-> "none", path |-> <<>>, new_path |-> <<>>]
NoFiles == [q \in {} |-> <<>>]

\* The backup files of directory dir: its files other than index.txt.
BackupsIn(f, dir) ==
    [q \in {p \in DOMAIN f : Parent(p) = dir /\ FileName(p) # INDEX_TXT} |-> f[q]]

NoSeq == [stage |-> 0, who |-> "", path |-> <<>>, content |-> <<>>,
          second |-> <<>>, wrote |-> FALSE]

NoRejected == [kind |-> "none", path |-> <<>>, new_path |-> <<>>, code |-> "none"]
NoListing == [status |-> "none", current_path |-> <<>>, parent_path |-> <<>>,
              entries |-> <<>>]

\* The state of the service when it starts, whatever the disk holds:
\* current_directory is PathBuf::from(".").
InitService ==
    /\ pc = [r \in Procs |-> "idle"]
    /\ req = [r \in Procs |-> NoRequest]
    /\ file_hash = [r \in Procs |-> <<>>]
    /\ status = [r \in Procs |-> "none"]
    /\ issued = 0
    /\ index_file = [r \in Procs |-> "closed"]
    /\ result = [r \in Procs |-> "none"]
    /\ log = [r \in Procs |-> <<>>]
    /\ pre = [r \in Procs |-> NoFiles]
    /\ removed = {}
    /\ backup_failed = FALSE
    /\ seq = NoSeq
    /\ error = [r \in Procs |-> ""]
    /\ rejected = NoRejected
    /\ listing = NoListing
    /\ current_directory = << <<DOT>> >>
    /\ no_sidecar = [r \in Procs |-> FALSE]

InitState ==
    /\ dirs = {D}
    /\ files = InitFiles
    /\ InitService

Init == InitState /\ limit = MaxRequests

InitSeq == InitState /\ limit = MaxSeqRequests

Logged(r, events) == log' = [log EXCEPT ![r] = @ \o events]

---------------------------------------------------------------------------
(* Two calls in sequence *)

\* The sidecar of path's directory holds no backup of path's content: no
\* backup file with that content and no index line with its hash.
Fresh(f, path) ==
    /\ \A q \in DOMAIN BackupsIn(f, BackupDir(path)) : f[q] # f[path]
    /\ IndexPath(path) \in DOMAIN f
           => Sha256Hex(f[path]) \notin LineSet(f[IndexPath(path)])

\* seq follows two create_backup calls made one after the other by one
\* worker while no other worker takes a step.  Stage 1: the first call runs,
\* begun with no prior backup of the file's content.  Stage 2: it returned
\* Ok.  Stage 3: the second call runs, on a file of the same directory with
\* the same content.  Stage 4: the second call returned Ok.  wrote: the
\* second call copied or appended.
SeqCall(r, rq) ==
    IF rq.path \notin DOMAIN files THEN NoSeq
    ELSE IF /\ seq.stage = 2
       /\ seq.who = r
       /\ Parent(rq.path) = Parent(seq.path)
       /\ files[rq.path] = seq.content
    THEN [seq EXCEPT !.stage = 3, !.second = rq.path]
    ELSE IF Fresh(files, rq.path) /\ \A q \in Procs \ {r} : pc[q] = "idle"
    THEN [stage |-> 1, who |-> r, path |-> rq.path,
          content |-> files[rq.path], second |-> <<>>, wrote |-> FALSE]
    ELSE NoSeq

SeqStep(r, ev) ==
    IF seq.stage = 0 THEN seq
    ELSE IF seq.who # r THEN NoSeq
    ELSE IF ev = "write" THEN [seq EXCEPT !.wrote = (seq.stage = 3)]
    ELSE IF ev = "ok" THEN [seq EXCEPT !.stage = seq.stage + 1]
    ELSE IF ev = "err" THEN NoSeq
    ELSE IF ev = "end" THEN (IF seq.stage = 2 THEN seq ELSE NoSeq)
    ELSE seq

---------------------------------------------------------------------------
(* create_backup *)

\* The calls of create_backup: from its first filesystem call to its return.
BackupPcs == {"mkdir", "hash", "index", "copy", "open", "write_hash", "write_nl"}

\* create_backup returns Err(e): the ? operator at any of its calls.
BackupErr(r) ==
    /\ result' = [result EXCEPT ![r] = "err"]
    /\ index_file' = [index_file EXCEPT ![r] = "closed"]
    /\ Logged(r, <<"backup_returned">>)
    /\ backup_failed' = TRUE
    /\ seq' = SeqStep(r, "err")
    /\ error' = [error EXCEPT ![r] = "io"]

\* create_backup returns Ok(()).
BackupOk(r, events) ==
    /\ result' = [result EXCEPT ![r] = "ok"]
    /\ index_file' = [index_file EXCEPT ![r] = "closed"]
    /\ Logged(r, events \o <<"backup_returned">>)
    /\ seq' = SeqStep(r, "ok")
    /\ UNCHANGED <<backup_failed, error>>

\* create_backup goes on to its next call.
BackupStep(r, ev) ==
    /\ seq' = SeqStep(r, ev)
    /\ UNCHANGED <<result, backup_failed, error>>

\* (mutant) The handler gives up on a backup error: create_backup(..)? .
AfterBackupErr_Abort(r) == pc' = [pc EXCEPT ![r] = "idle"]

\* The handler after create_backup returned Err: it prints a warning and
\* goes on to the destructive call.
AfterBackupErr(r) == pc' = [pc EXCEPT ![r] = "destroy"]

\* The handler after create_backup returned Ok.
AfterBackupOk(r) == pc' = [pc EXCEPT ![r] = "destroy"]

\* The message of the error create_backup makes when file_path.parent() is
\* None.
NO_PARENT == "File has no parent directory"

\* The call of create_backup(file_path): file_path.parent()
CallBackup(r, rq) ==
    /\ req' = [req EXCEPT ![r] = rq]
    /\ status' = [status EXCEPT ![r] = "pending"]
    /\ pre' = [pre EXCEPT ![r] = BackupsIn(files, BackupDir(rq.path))]
    /\ file_hash' = [file_hash EXCEPT ![r] = <<>>]
    /\ UNCHANGED index_file
    /\ rejected' = NoRejected
    /\ IF HasParent(rq.path)
       THEN /\ pc' = [pc EXCEPT ![r] = "mkdir"]
            /\ result' = [result EXCEPT ![r] = "none"]
            /\ error' = [error EXCEPT ![r] = ""]
            /\ log' = [log EXCEPT ![r] = <<>>]
            /\ seq' = SeqCall(r, rq)
            /\ UNCHANGED backup_failed
       ELSE /\ AfterBackupErr(r)
            /\ result' = [result EXCEPT ![r] = "err"]
            /\ error' = [error EXCEPT ![r] = NO_PARENT]
            /\ log' = [log EXCEPT ![r] = <<"backup_returned">>]
            /\ seq' = NoSeq
            /\ backup_failed' = TRUE

\* fs::create_dir_all(&backup_dir)?
create_dir_all(r) ==
    /\ pc[r] = "mkdir"
    /\ \/ /\ BackupDir(req[r].path) \notin DOMAIN files
          /\ dirs' = dirs \cup {BackupDir(req[r].path)}
          /\ pc' = [pc EXCEPT ![r] = "hash"]
          /\ BackupStep(r, "step")
          /\ UNCHANGED <<files, log, index_file>>
       \/ /\ BackupErr(r)
          /\ AfterBackupErr(r)
          /\ UNCHANGED <<dirs, files>>
    /\ UNCHANGED <<req, file_hash, status, issued, limit, pre, no_sidecar, removed>>
    /\ rejected' = NoRejected
    /\ UNCHANGED <<listing, current_directory>>

\* let file_hash = calculate_file_hash(file_path)?
calculate_file_hash(r) ==
    /\ pc[r] = "hash"
    /\ \/ /\ is_file(req[r].path)
          /\ file_hash' = [file_hash EXCEPT ![r] = Sha256Hex(files[req[r].path])]
          /\ pc' = [pc EXCEPT ![r] = "index"]
          /\ BackupStep(r, "step")
          /\ UNCHANGED <<log, index_file>>
       \/ /\ BackupErr(r)
          /\ AfterBackupErr(r)
          /\ UNCHANGED file_hash
    /\ UNCHANGED <<dirs, files, req, status, issued, limit, pre, no_sidecar, removed>>
    /\ rejected' = NoRejected
    /\ UNCHANGED <<listing, current_directory>>

\* (mutant) The whole index is compared with the hash: index_content ==
\* file_hash.
IndexHas_WholeFile(content, h) == content = h

\* index_content.lines().any(|line| line == file_hash)
IndexHas(content, h) == h \in LineSet(content)

\* if index_path.exists() { read_to_string(&index_path)?; ... return Ok(()) }
check_index(r) ==
    /\ pc[r] = "index"
    /\ \/ /\ ~exists(IndexPath(req[r].path))
          /\ pc' = [pc EXCEPT ![r] = "copy"]
          /\ BackupStep(r, "step")
          /\ UNCHANGED <<log, index_file>>
       \/ /\ is_file(IndexPath(req[r].path))
          /\ IF IndexHas(files[IndexPath(req[r].path)], file_hash[r])
             THEN /\ BackupOk(r, <<"index_read">>)
                  /\ AfterBackupOk(r)
             ELSE /\ pc' = [pc EXCEPT ![r] = "copy"]
                  /\ Logged(r, <<"index_read">>)
                  /\ BackupStep(r, "step")
                  /\ UNCHANGED index_file
       \/ /\ exists(IndexPath(req[r].path))
          /\ BackupErr(r)
          /\ AfterBackupErr(r)
    /\ UNCHANGED <<dirs, files, req, file_hash, status, issued, limit, pre, no_sidecar, removed>>
    /\ rejected' = NoRejected
    /\ UNCHANGED <<listing, current_directory>>

\* (mutant) The file is moved to the backup: fs::rename(from, to).
CopyFile_Move(f, from, to) == With(Without(f, from), to, f[from])

\* What a successful fs::copy(from, to) leaves: to holds from's content.
CopyFile(f, from, to) == With(f, to, f[from])

\* fs::copy(file_path, &backup_path)?  A copy that fails after it opened the
\* destination leaves it truncated.
copy(r) ==
    /\ pc[r] = "copy"
    /\ LET to == BackupPath(req[r].path, file_hash[r])
       IN  \/ /\ is_file(req[r].path)
              /\ Parent(to) \in dirs
              /\ to \notin dirs
              /\ files' = CopyFile(files, req[r].path, to)
              /\ pc' = [pc EXCEPT ![r] = "open"]
              /\ BackupStep(r, "write")
              /\ UNCHANGED <<log, index_file>>
           \/ /\ BackupErr(r)
              /\ AfterBackupErr(r)
              /\ UNCHANGED files
           \/ /\ is_file(req[r].path)
              /\ Parent(to) \in dirs
              /\ to \notin dirs
              /\ files' = With(files, to, <<>>)
              /\ BackupErr(r)
              /\ AfterBackupErr(r)
    /\ UNCHANGED <<dirs, req, file_hash, status, issued, limit, pre, no_sidecar, removed>>
    /\ rejected' = NoRejected
    /\ UNCHANGED <<listing, current_directory>>

\* OpenOptions::new().create(true).append(true).open(index_path)?
open_index(r) ==
    /\ pc[r] = "open"
    /\ LET idx == IndexPath(req[r].path)
       IN  \/ /\ Parent(idx) \in dirs
              /\ idx \notin dirs
              /\ files' = IF is_file(idx) THEN files ELSE With(files, idx, <<>>)
              /\ index_file' = [index_file EXCEPT ![r] = "open"]
              /\ pc' = [pc EXCEPT ![r] = "write_hash"]
              /\ BackupStep(r, "write")
              /\ UNCHANGED log
           \/ /\ BackupErr(r)
              /\ AfterBackupErr(r)
              /\ UNCHANGED files
    /\ UNCHANGED <<dirs, req, file_hash, status, issued, limit, pre, no_sidecar, removed>>
    /\ rejected' = NoRejected
    /\ UNCHANGED <<listing, current_directory>>

\* (mutant) The write is skipped when the index already holds the hash as a
\* line: a second duplicate check at the append.
AppendTo_IfAbsent(f, r, text) ==
    IF index_file[r] = "open"
          /\ file_hash[r] \notin LineSet(f[IndexPath(req[r].path)])
    THEN [f EXCEPT ![IndexPath(req[r].path)] = @ \o text]
    ELSE f

\* One write(2) in append mode through r's handle: the text goes to the end
\* of the file, or to a file no path names any more.
AppendTo(f, r, text) ==
    IF index_file[r] = "open"
    THEN [f EXCEPT ![IndexPath(req[r].path)] = @ \o text]
    ELSE f

\* writeln!(index_file, "{}", file_hash)?  File is unbuffered and write_fmt
\* writes each piece of the format with its own write_all: first the hash,
\* then the newline.
writeln_hash(r) ==
    /\ pc[r] = "write_hash"
    /\ \/ /\ files' = AppendTo(files, r, file_hash[r])
          /\ pc' = [pc EXCEPT ![r] = "write_nl"]
          /\ Logged(r, <<"index_append">>)
          /\ BackupStep(r, "write")
          /\ UNCHANGED index_file
       \/ /\ BackupErr(r)
          /\ AfterBackupErr(r)
          /\ UNCHANGED files
    /\ UNCHANGED <<dirs, req, file_hash, status, issued, limit, pre, no_sidecar, removed>>
    /\ rejected' = NoRejected
    /\ UNCHANGED <<listing, current_directory>>

writeln_newline(r) ==
    /\ pc[r] = "write_nl"
    /\ \/ /\ files' = AppendTo(files, r, <<NL>>)
          /\ BackupOk(r, <<>>)
          /\ AfterBackupOk(r)
       \/ /\ BackupErr(r)
          /\ AfterBackupErr(r)
          /\ UNCHANGED files
    /\ UNCHANGED <<dirs, req, file_hash, status, issued, limit, pre, no_sidecar, removed>>
    /\ rejected' = NoRejected
    /\ UNCHANGED <<listing, current_directory>>

---------------------------------------------------------------------------
(* The handlers *)

\* A request the handler rejects before the backup step.
Reject(r, code) ==
    /\ status' = [status EXCEPT ![r] = code]
    /\ seq' = SeqStep(r, "end")
    /\ UNCHANGED <<pc, req, file_hash, index_file, result, log, pre, no_sidecar,
                   backup_failed, error>>

\* delete_file_handler up to its call of create_backup.
delete_file_handler(r, path) ==
    /\ pc[r] = "idle"
    /\ issued < limit
    /\ issued' = issued + 1
    /\ IF ~exists(path) \/ ~is_file(path)
       THEN /\ Reject(r, "NOT_FOUND")
            /\ rejected' = [kind |-> "delete", path |-> path, new_path |-> path,
                            code |-> "NOT_FOUND"]
       ELSE /\ CallBackup(r, [kind |-> "delete", path |-> path,
                              new_path |-> path])
            /\ UNCHANGED no_sidecar
    /\ UNCHANGED <<dirs, files, limit, removed, listing, current_directory>>

\* rename_file_handler up to its call of create_backup; new_path is
\* parent_dir.join(new_name).
rename_file_handler(r, old_path, new_name) ==
    /\ pc[r] = "idle"
    /\ issued < limit
    /\ issued' = issued + 1
    /\ IF ~exists(old_path) \/ ~is_file(old_path)
       THEN /\ Reject(r, "NOT_FOUND")
            /\ rejected' = [kind |-> "rename", path |-> old_path,
                            new_path |-> Parent(old_path) \o new_name,
                            code |-> "NOT_FOUND"]
       ELSE IF exists(Parent(old_path) \o new_name)
       THEN /\ Reject(r, "CONFLICT")
            /\ rejected' = [kind |-> "rename", path |-> old_path,
                            new_path |-> Parent(old_path) \o new_name,
                            code |-> "CONFLICT"]
       ELSE /\ CallBackup(r, [kind |-> "rename", path |-> old_path,
                              new_path |-> Parent(old_path) \o new_name])
            /\ UNCHANGED no_sidecar
    /\ UNCHANGED <<dirs, files, limit, removed, listing, current_directory>>

\* The handles on the file at path p once no path names that file any more.
Unlinked(p) ==
    [q \in Procs |-> IF index_file[q] = "open" /\ IndexPath(req[q].path) = p
                     THEN "unlinked" ELSE index_file[q]]

\* The response: the handler returns and its locals are dropped (result
\* stays until the worker's next call of create_backup, for the record).
Respond(r, code) ==
    /\ status' = [status EXCEPT ![r] = code]
    /\ pc' = [pc EXCEPT ![r] = "idle"]
    /\ req' = [req EXCEPT ![r] = NoRequest]
    /\ file_hash' = [file_hash EXCEPT ![r] = <<>>]
    /\ log' = [log EXCEPT ![r] = <<>>]
    /\ pre' = [pre EXCEPT ![r] = NoFiles]
    /\ no_sidecar' = [no_sidecar EXCEPT ![r] = FALSE]
    /\ seq' = SeqStep(r, "end")
    /\ UNCHANGED <<result, backup_failed, error>>

\* (mutant) The destructive call does not wait for create_backup.
BackupReturned_NoWait(r) == pc[r] \in BackupPcs \cup {"destroy"}

\* The handler is at its destructive call: create_backup has returned.
BackupReturned(r) == pc[r] = "destroy"

\* fs::remove_file(&file_path), and the response.
remove_file(r) ==
    /\ BackupReturned(r)
    /\ req[r].kind = "delete"
    /\ \/ /\ is_file(req[r].path)
          /\ files' = Without(files, req[r].path)
          /\ index_file' = Unlinked(req[r].path)
          /\ removed' = removed \cup {<<Parent(req[r].path), files[req[r].path]>>}
          /\ Respond(r, "OK")
       \/ /\ Respond(r, "INTERNAL_SERVER_ERROR")
          /\ UNCHANGED <<files, index_file, removed>>
    /\ UNCHANGED <<dirs, issued, limit>>
    /\ rejected' = NoRejected
    /\ UNCHANGED <<listing, current_directory>>

\* What a successful fs::rename(from, to) leaves: the file is at to, where it
\* replaces a file that was there.
RenameFile(f, from, to) ==
    IF from = to THEN f ELSE With(Without(f, from), to, f[from])

\* fs::rename(&old_path, &new_path), and the response.  (No rename request of
\* the model names an index file as old_path, so no handle moves with it.)
rename(r) ==
    /\ BackupReturned(r)
    /\ req[r].kind = "rename"
    /\ \/ /\ is_file(req[r].path)
          /\ Parent(req[r].new_path) \in dirs
          /\ req[r].new_path \notin dirs
          /\ files' = RenameFile(files, req[r].path, req[r].new_path)
          /\ index_file' = Unlinked(req[r].new_path)
          /\ Respond(r, "OK")
       \/ /\ Respond(r, "INTERNAL_SERVER_ERROR")
          /\ UNCHANGED <<files, index_file>>
    /\ UNCHANGED <<dirs, issued, limit, removed>>
    /\ rejected' = NoRejected
    /\ UNCHANGED <<listing, current_directory>>

---------------------------------------------------------------------------
(* create_backup called by itself *)

\* A second directory, and files whose names exercise file_stem and
\* extension: no '.', a trailing '.', a leading '.', two '.'.
E == << <<Ch("e")>> >>
E_A_JPG == Append(E, <<Ch("a"), DOT, Ch("jpg")>>)
NOTES == Append(D, <<Ch("notes")>>)
TRAIL == Append(D, <<Ch("trail"), DOT>>)
HIDDEN == Append(D, <<DOT, Ch("hidden")>>)
A_TAR_GZ == Append(D, <<Ch("a"), DOT, Ch("tar"), DOT, Ch("gz")>>)

\* Contents with other first bytes than X1 and X2.
Y1 == <<Ch("y"), Ch("1")>>
Z1 == <<Ch("z"), Ch("1")>>

CallFiles ==
    (A_JPG :> X1) @@ (E_A_JPG :> X1) @@ (NOTES :> X2) @@ (TRAIL :> Y1)
        @@ (HIDDEN :> Z1) @@ (A_TAR_GZ :> Y1)

\* The paths create_backup is called on; <<>> is the path with no parent.
BackupInputs == {<<>>, A_JPG, E_A_JPG, NOTES, TRAIL, HIDDEN, A_TAR_GZ}

InitCall ==
    /\ dirs = {D, E}
    /\ files = CallFiles
    /\ InitService
    /\ limit = MaxCalls

\* create_backup(file_path), called with no handler around it.
create_backup(r, file_path) ==
    /\ pc[r] = "idle"
    /\ issued < limit
    /\ issued' = issued + 1
    /\ CallBackup(r, [kind |-> "backup", path |-> file_path,
                      new_path |-> file_path])
    /\ no_sidecar' = [no_sidecar EXCEPT ![r] = ~exists(BackupDir(file_path))]
    /\ UNCHANGED <<dirs, files, limit, removed, listing, current_directory>>

\* The caller takes what create_backup returned.
Return(r) ==
    /\ BackupReturned(r)
    /\ req[r].kind = "backup"
    /\ Respond(r, "returned")
    /\ rejected' = NoRejected
    /\ UNCHANGED <<dirs, files, index_file, issued, limit, removed, listing,
                   current_directory>>

NextCall ==
    \/ \E path \in BackupInputs : create_backup("p1", path)
    \/ create_dir_all("p1")
    \/ calculate_file_hash("p1")
    \/ check_index("p1")
    \/ copy("p1")
    \/ open_index("p1")
    \/ writeln_hash("p1")
    \/ writeln_newline("p1")
    \/ Return("p1")

SpecCall == InitCall /\ [][NextCall]_vars

---------------------------------------------------------------------------
(* list_directory_handler *)

IMAGE_EXTENSIONS ==
    {"jpg", "jpeg", "png", "gif", "bmp", "avif", "webp", "tiff", "svg", "ico"}

\* The bytes of the strings that occur in the names of listed entries ('?'
\* stands for the bytes of any other string).
StrCodes(s) ==
    CASE s = "a" -> <<97>>
      [] s = "b" -> <<98>>
      [] s = "c" -> <<99>>
      [] s = "x" -> <<120>>
      [] s = "P" -> <<80>>
      [] s = "_" -> <<95>>
      [] s = "jpg" -> <<106, 112, 103>>
      [] s = "JPG" -> <<74, 80, 71>>
      [] s = "png" -> <<112, 110, 103>>
      [] s = "sub" -> <<115, 117, 98>>
      [] OTHER -> <<63>>

\* The bytes of a name.
RECURSIVE Codes(_)
Codes(name) ==
    IF name = <<>> THEN <<>>
    ELSE (IF Head(name) = DOT THEN <<46>> ELSE StrCodes(Head(name)[2]))
             \o Codes(Tail(name))

\* str::to_lowercase on ASCII bytes.
to_lowercase(cs) ==
    [i \in 1..Len(cs) |-> IF cs[i] >= 65 /\ cs[i] <= 90 THEN cs[i] + 32 ELSE cs[i]]

\* The order of str::cmp: bytewise lexicographic.
StrLess(a, b) ==
    \/ Len(a) < Len(b) /\ SubSeq(b, 1, Len(a)) = a
    \/ \E i \in 1..Len(a) :
           /\ i <= Len(b)
           /\ SubSeq(a, 1, i - 1) = SubSeq(b, 1, i - 1)
           /\ a[i] < b[i]

\* is_image_file: the extension, lowercased, is one of IMAGE_EXTENSIONS.
is_image_file(name) ==
    /\ FileExtension(name) # <<>>
    /\ \E e \in IMAGE_EXTENSIONS :
           to_lowercase(Codes(FileExtension(name))) = StrCodes(e)

\* (mutant) No entry is skipped as hidden.
Hidden_Never(name) == FALSE

\* name_str.starts_with('.')
Hidden(name) == name # <<>> /\ name[1] = DOT

is_dir(path) == path \in dirs

\* What fs::read_dir(path) yields: the files and directories in path.
read_dir(path) ==
    {p \in DOMAIN files \cup dirs : Len(p) > 0 /\ Parent(p) = path}

\* The entries the loop pushes: the directories and the images among the
\* entries that are not hidden.
Entries(path) ==
    {[name |-> FileName(p), path |-> p, is_dir |-> is_dir(p),
      is_image |-> ~is_dir(p) /\ is_image_file(FileName(p))] :
        p \in {q \in read_dir(path) :
                  /\ ~Hidden(FileName(q))
                  /\ (is_dir(q) \/ is_image_file(FileName(q)))}}

\* The order of entries.sort_by: directories first, then by lowercased name.
EntryLess(a, b) ==
    \/ a.is_dir /\ ~b.is_dir
    \/ /\ a.is_dir = b.is_dir
       /\ StrLess(to_lowercase(Codes(a.name)), to_lowercase(Codes(b.name)))

\* The orders entries.sort_by may leave the entries S in: entries that
\* compare equal stay in the order read_dir gave them, which is any.
RECURSIVE SortedEntries(_)
SortedEntries(S) ==
    IF S = {} THEN {<<>>}
    ELSE UNION {{<<m>> \o s : s \in SortedEntries(S \ {m})} :
                   m \in {e \in S : \A f \in S : ~EntryLess(f, e)}}

\* A subdirectory, a picture with an upper-case extension, and the paths the
\* listing requests name: a directory, its sidecar, a file, nothing.
SUB == Append(D, <<Ch("sub")>>)
P_JPG == Append(D, <<Ch("P"), DOT, Ch("JPG")>>)
NOWHERE == Append(D, <<Ch("nowhere")>>)

\* (No a.jpg: a rename request to that name is accepted at once.)
ListFiles ==
    (B_JPG :> X1) @@ (C_JPG :> X2) @@ (P_JPG :> Y1) @@ (NOTES :> Y1)
        @@ (HIDDEN :> Z1)

ListPaths == {D, BackupDir(A_JPG), A_JPG, NOWHERE}

InitList ==
    /\ dirs = {D, SUB}
    /\ files = ListFiles
    /\ InitService
    /\ limit = MaxListRequests

\* list_directory_handler: the whole handler, which makes its filesystem
\* reads, sorts, stores the path in the application state and responds.
list_directory_handler(path) ==
    /\ \/ /\ ~exists(path)
          /\ listing' = [NoListing EXCEPT !.status = "NOT_FOUND"]
          /\ UNCHANGED current_directory
       \/ /\ exists(path) /\ ~is_dir(path)
          /\ listing' = [NoListing EXCEPT !.status = "BAD_REQUEST"]
          /\ UNCHANGED current_directory
       \/ /\ is_dir(path)
          /\ listing' = [NoListing EXCEPT !.status = "INTERNAL_SERVER_ERROR"]
          /\ UNCHANGED current_directory
       \/ /\ is_dir(path)
          /\ \E s \in SortedEntries(Entries(path)) :
                 listing' = [status |-> "OK", current_path |-> path,
                             parent_path |-> Parent(path), entries |-> s]
          /\ current_directory' = path
    /\ UNCHANGED <<dirs, files, pc, req, file_hash, status, issued, limit,
                   index_file, result, log, pre, removed, backup_failed, seq,
                   error, rejected, no_sidecar>>

---------------------------------------------------------------------------
(* The service *)

\* One filesystem call of worker r, or the arrival of a request at it.
Step(r) ==
    \/ \E path \in DeletePaths : delete_file_handler(r, path)
    \/ \E in \in RenameInputs : rename_file_handler(r, in[1], in[2])
    \/ create_dir_all(r)
    \/ calculate_file_hash(r)
    \/ check_index(r)
    \/ copy(r)
    \/ open_index(r)
    \/ writeln_hash(r)
    \/ writeln_newline(r)
    \/ remove_file(r)
    \/ rename(r)

Next == \E r \in Procs : Step(r)

Spec == Init /\ [][Next]_vars

\* The service with a single worker: requests are served one after another.
NextSeq == Step("p1")

SpecSeq == InitSeq /\ [][NextSeq]_vars

\* The service with a single worker, and directory listings served at any
\* time.
NextList ==
    \/ Step("p1")
    \/ \E path \in ListPaths : list_directory_handler(path)

SpecList == InitList /\ [][NextList]_vars

---------------------------------------------------------------------------
(* Claims *)

Idle == \A r \in Procs : pc[r] = "idle"

\* The files of directory dir.
FilesIn(dir) == {p \in DOMAIN files : Parent(p) = dir}

\* C1: once the requests have been served and every create_backup call has
\* returned Ok, each file a delete request removed has a byte-identical copy
\* in the .safety_net of the directory it was removed from.
C1_RemovedFilesAreBackedUp ==
    (Idle /\ ~backup_failed) =>
        \A x \in removed :
            \E p \in FilesIn(Append(x[1], SAFETY_NET)) : files[p] = x[2]

\* Worker r takes a step.
Steps(r) == pc'[r] # pc[r]

\* C2: a failed backup never blocks the destructive operation.  When
\* create_backup returns an error the handler goes on, without responding, to
\* remove_file / rename; and that call either succeeds, with the original
\* file gone from its path and the response OK, or fails and changes nothing.
C2_BackupFailureDoesNotBlock ==
    [][\A r \in Procs :
        /\ (pc[r] \in BackupPcs /\ result'[r] = "err")
               => (pc'[r] = "destroy" /\ status'[r] = "pending" /\ req'[r] = req[r])
        /\ (pc[r] = "destroy" /\ result[r] = "err" /\ Steps(r))
               => \/ /\ status'[r] = "OK"
                     /\ req[r].path \notin DOMAIN files'
                     /\ req[r].path \in DOMAIN files
                  \/ /\ status'[r] = "INTERNAL_SERVER_ERROR"
                     /\ files' = files]_vars

\* C2's case: a request whose backup failed was answered OK.
C2_Witness ==
    \E r \in Procs : pc[r] = "idle" /\ result[r] = "err" /\ status[r] = "OK"

\* The position of event e in worker r's log, 0 when it is not there.
Pos(r, e) ==
    IF \E i \in DOMAIN log[r] : log[r][i] = e
    THEN CHOOSE i \in DOMAIN log[r] : log[r][i] = e
    ELSE 0

\* C3: within a request the index read comes before the index append, and
\* create_backup has returned before remove_file / rename is performed; no
\* call of create_backup follows its return.
C3_OrderInv ==
    \A r \in Procs :
        /\ (Pos(r, "index_read") > 0 /\ Pos(r, "index_append") > 0)
               => Pos(r, "index_read") < Pos(r, "index_append")
        /\ Pos(r, "backup_returned") > 0
               => (Pos(r, "backup_returned") = Len(log[r]) /\ pc[r] = "destroy")

C3_Order ==
    /\ []C3_OrderInv
    /\ [][\A r \in Procs :
            /\ (pc[r] # "idle" /\ pc'[r] = "idle") => Pos(r, "backup_returned") > 0
            /\ (pc[r] \in BackupPcs
                    /\ (status'[r] # status[r]
                        \/ (req[r].path \in DOMAIN files
                                /\ req[r].path \notin DOMAIN files')))
                   => ~Steps(r)]_vars

\* C3's case: a request that read the index, appended to it and is about to
\* perform its destructive call.
C3_Witness ==
    \E r \in Procs :
        /\ pc[r] = "destroy"
        /\ log[r] = <<"index_read", "index_append", "backup_returned">>

\* C7: create_backup never modifies or deletes the original file: no call it
\* makes changes whether the file at the given path exists, or its content.
C7_OriginalUntouched ==
    [][\A r \in Procs :
        (pc[r] \in BackupPcs /\ Steps(r)) =>
            IF req[r].path \in DOMAIN files
            THEN /\ req[r].path \in DOMAIN files'
                 /\ files'[req[r].path] = files[req[r].path]
            ELSE req[r].path \notin DOMAIN files']_vars

\* C7's case: create_backup copied the file, appended to the index and
\* returned, and the original is where it was, equal to its copy.
C7_Witness ==
    \E r \in Procs :
        /\ pc[r] = "destroy"
        /\ result[r] = "ok"
        /\ Pos(r, "index_append") > 0
        /\ is_file(req[r].path)
        /\ is_file(BackupPath(req[r].path, file_hash[r]))
        /\ files[BackupPath(req[r].path, file_hash[r])] = files[req[r].path]

\* C8: a deduplication hit.  When create_backup has read the index and its
\* hash equals a whole line of it, it returns Ok at once and the call creates
\* or rewrites no file and appends no line.
C8_DedupHit ==
    [][\A r \in Procs :
        (/\ pc[r] = "index"
         /\ Steps(r)
         /\ \E i \in DOMAIN log'[r] : log'[r][i] = "index_read"
         /\ is_file(IndexPath(req[r].path))
         /\ file_hash[r] \in LineSet(files[IndexPath(req[r].path)]))
        => (/\ result'[r] = "ok"
            /\ pc'[r] = "destroy"
            /\ files' = files
            /\ dirs' = dirs
            /\ Pos(r, "index_append") = 0)]_vars

\* C8's case: a call that returned Ok on a deduplication hit.
C8_Witness ==
    \E r \in Procs :
        /\ pc[r] = "destroy"
        /\ result[r] = "ok"
        /\ log[r] = <<"index_read", "backup_returned">>
        /\ file_hash[r] \in LineSet(files[IndexPath(req[r].path)])

\* C10: nothing holds back a call that has missed the duplicate check: no
\* lock and no second check.  Its copy and its append go through whatever
\* other calls have written since, also when the index by then holds its hash.
C10_NoLock ==
    [][\A r \in Procs :
        /\ (pc[r] = "copy" /\ pc'[r] = "open")
               => files'[BackupPath(req[r].path, file_hash[r])] = files[req[r].path]
        /\ (pc[r] = "write_hash" /\ pc'[r] = "write_nl" /\ index_file[r] = "open")
               => files'[IndexPath(req[r].path)]
                      = files[IndexPath(req[r].path)] \o file_hash[r]]_vars

\* C10's case: the duplicate race.  Two calls on files of one directory with
\* different names and the same content both found no index (so both checked
\* before either appended), both copied, appended and returned Ok, and the
\* index holds two lines for the one hash.
C10_Witness ==
    \E r, q \in Procs :
        /\ r # q
        /\ pc[r] = "destroy" /\ pc[q] = "destroy"
        /\ result[r] = "ok" /\ result[q] = "ok"
        /\ req[r].path # req[q].path
        /\ Parent(req[r].path) = Parent(req[q].path)
        /\ file_hash[r] = file_hash[q]
        /\ log[r] = <<"index_append", "backup_returned">>
        /\ log[q] = <<"index_append", "backup_returned">>
        /\ CountLines(files[IndexPath(req[r].path)], file_hash[r]) = 2
        /\ is_file(BackupPath(req[r].path, file_hash[r]))
        /\ is_file(BackupPath(req[q].path, file_hash[q]))

\* The sidecar of the two calls seq follows, its index and the hash they
\* computed.
SeqDir == Append(Parent(seq.path), SAFETY_NET)
SeqIndex == Append(SeqDir, INDEX_TXT)
SeqHash == Sha256Hex(seq.content)

\* Exactly one backup file holds the content and exactly one index line is
\* its hash, and the second call copied nothing and appended nothing.
SecondCallWasNoOp ==
    /\ Cardinality({p \in FilesIn(SeqDir) :
                       FileName(p) # INDEX_TXT /\ files[p] = seq.content}) = 1
    /\ is_file(SeqIndex)
    /\ CountLines(files[SeqIndex], SeqHash) = 1
    /\ ~seq.wrote

\* C4: idempotence.  Two successful calls of create_backup in sequence on the
\* same unchanged file, the first begun with no prior backup of its content,
\* leave exactly one backup file and one index line for its hash; the second
\* call copies nothing and appends nothing.
C4_Idempotent ==
    (seq.stage = 4 /\ seq.second = seq.path) => SecondCallWasNoOp

\* An index line that is a SHA-256 digest in hex.
IsHash(l) == Len(l) = 2 /\ l[1][1] = "h8" /\ l[2][1] = "h56"

\* C5: every hash that is a line of a directory's index.txt has a backup file
\* holding the content with that hash in the same .safety_net.
C5_IndexedHashHasBackup ==
    \A idx \in DOMAIN files :
        FileName(idx) = INDEX_TXT =>
            \A l \in LineSet(files[idx]) :
                IsHash(l) =>
                    \E p \in FilesIn(Parent(idx)) :
                        p # idx /\ Sha256Hex(files[p]) = l

\* C6: create_backup never modifies or deletes existing backup files: when
\* the call returns, every backup file that was in the sidecar when it began
\* is there with the content it had.
C6_BackupsUntouched ==
    [][\A r \in Procs :
        (pc[r] \in BackupPcs /\ pc'[r] = "destroy") =>
            \A p \in DOMAIN pre[r] :
                p \in DOMAIN files' /\ files'[p] = pre[r][p]]_vars

C11_NoParent ==
    /\ [](\A r \in Procs : pc[r] \in BackupPcs => HasParent(req[r].path))
    /\ [][\A r \in Procs :
            (pc[r] = "idle" /\ pc'[r] # "idle" /\ Len(req'[r].path) = 0)
                => /\ pc'[r] = "destroy"
                   /\ result'[r] = "err"
                   /\ error'[r] = NO_PARENT
                   /\ log'[r] = <<"backup_returned">>
                   /\ files' = files
                   /\ dirs' = dirs]_vars

\* C11's case: a call on the path with no parent has returned its error.
C11_Witness ==
    \E r \in Procs :
        /\ pc[r] = "destroy"
        /\ req[r].kind = "backup"
        /\ Len(req[r].path) = 0
        /\ error[r] = NO_PARENT

\* C12: the first backup.  When create_backup returns Ok on a file whose
\* parent directory had no sidecar when the call began, the parent holds
\* .safety_net, its index.txt is the one line that is the file's full hash,
\* and its only backup file has the derived name and the original's content.
C12_FirstBackup ==
    \A r \in Procs :
        (pc[r] = "destroy" /\ result[r] = "ok" /\ no_sidecar[r]) =>
            LET path == req[r].path
                dir == Append(Parent(path), SAFETY_NET)
                idx == Append(dir, INDEX_TXT)
                bak == Append(dir, BackupFilename(FileName(path),
                                                  Sha256Hex(files[path])))
            IN  /\ dir \in dirs
                /\ idx \in DOMAIN files
                /\ Lines(files[idx]) = <<Sha256Hex(files[path])>>
                /\ {p \in FilesIn(dir) : p # idx} = {bak}
                /\ files[bak] = files[path]

\* C12's case: a call that found no sidecar has returned Ok.
C12_Witness ==
    \E r \in Procs :
        /\ pc[r] = "destroy"
        /\ result[r] = "ok"
        /\ no_sidecar[r]
        /\ log[r] = <<"index_append", "backup_returned">>

\* Sequence b is an extension of sequence a.
Extends(b, a) == Len(a) <= Len(b) /\ SubSeq(b, 1, Len(a)) = a

\* C13: the index is append-only.  Across every call create_backup makes,
\* each index.txt stays where it is and its sequence of lines after the call
\* is an extension of its sequence of lines before: no line is removed,
\* reordered or rewritten.
C13_AppendOnly ==
    [][\A r \in Procs :
        (pc[r] \in BackupPcs /\ Steps(r)) =>
            \A idx \in DOMAIN files :
                FileName(idx) = INDEX_TXT =>
                    /\ idx \in DOMAIN files'
                    /\ Extends(Lines(files'[idx]), Lines(files[idx]))]_vars

\* Path p lies inside a .safety_net directory.
InSidecar(p) == \E i \in 1..(Len(p) - 1) : p[i] = SAFETY_NET

\* C14: only create_backup writes to a sidecar.  The remove_file / rename
\* step of a request, whatever path the request names, leaves every file
\* inside a .safety_net directory where it is, with its content, and puts no
\* file there.
C14_OnlyBackupWritesSidecar ==
    [][\A r \in Procs :
        (pc[r] = "destroy" /\ Steps(r)) =>
            /\ \A p \in DOMAIN files :
                   InSidecar(p) => (p \in DOMAIN files' /\ files'[p] = files[p])
            /\ \A p \in DOMAIN files' : InSidecar(p) => p \in DOMAIN files]_vars

\* C15: a directory listing never holds an entry for the .safety_net
\* sidecar, nor any entry whose name starts with '.'.
C15_SidecarNotListed ==
    listing.status = "OK" =>
        \A i \in DOMAIN listing.entries :
            /\ listing.entries[i].name # SAFETY_NET
            /\ listing.entries[i].name[1] # DOT

\* C15's case: a directory that holds a sidecar with a backup in it, and
\* further entries, was listed.
C15_Witness ==
    /\ listing.status = "OK"
    /\ listing.current_path = D
    /\ Len(listing.entries) > 1
    /\ BackupDir(A_JPG) \in dirs
    /\ BackupsIn(files, BackupDir(A_JPG)) # NoFiles
    /\ Entries(D) = {listing.entries[i] : i \in DOMAIN listing.entries}

\* Name n has a non-empty extension: a '.' that is not its first character
\* and is followed by at least one character, none of them a '.'.
HasExtension(n, i) ==
    /\ i > 1 /\ i < Len(n)
    /\ n[i] = DOT
    /\ \A j \in (i + 1)..Len(n) : n[j] # DOT

\* The name C16 gives the backup of a file named n whose hash starts with
\* the 8 characters h8.
NamedBackup(n, h8) ==
    IF \E i \in 1..Len(n) : HasExtension(n, i)
    THEN LET i == CHOOSE k \in 1..Len(n) : HasExtension(n, k)
         IN  SubSeq(n, 1, i - 1) \o <<Ch("_"), h8, DOT>>
                 \o SubSeq(n, i + 1, Len(n))
    ELSE (IF Len(n) > 1 /\ n[Len(n)] = DOT THEN SubSeq(n, 1, Len(n) - 1) ELSE n)
             \o <<Ch("_"), h8, DOT, Ch("bak")>>

\* C16: backup file naming.  Once create_backup has copied the file, the
\* backup files of the sidecar are those there were when the call began and
\* the one named {stem}_{first 8 hex characters of the hash}.{extension}, or
\* {stem}_{first 8 hex characters}.bak when the file has no extension or an
\* empty one; and that one holds the file's content.
C16_BackupNaming ==
    \A r \in Procs :
        pc[r] \in {"open", "write_hash", "write_nl"} =>
            LET path == req[r].path
                dir == Append(Parent(path), SAFETY_NET)
                bak == Append(dir, NamedBackup(FileName(path),
                                               Sha256Hex(files[path])[1]))
            IN  /\ DOMAIN BackupsIn(files, dir) = DOMAIN pre[r] \cup {bak}
                /\ files[bak] = files[path]

\* C16's case: a file with no extension and a file with two dots in its
\* name have been backed up, and a third file has just been copied.
C16_Witness ==
    /\ \E r \in Procs : pc[r] = "open"
    /\ Append(BackupDir(NOTES), NamedBackup(FileName(NOTES), Sha256Hex(X2)[1]))
           \in DOMAIN files
    /\ Append(BackupDir(A_TAR_GZ),
              NamedBackup(FileName(A_TAR_GZ), Sha256Hex(Y1)[1])) \in DOMAIN files

\* The content with hash h is backed up in a directory other than dir: the
\* index of another sidecar holds h as a line.
BackedUpElsewhere(h, dir) ==
    \E idx \in DOMAIN files :
        /\ FileName(idx) = INDEX_TXT
        /\ Parent(idx) # dir
        /\ h \in LineSet(files[idx])

\* C17: backups are scoped per parent directory.  No call create_backup
\* makes for a file of directory D creates, changes or removes anything
\* outside D/.safety_net; and when a call on a file whose content is backed
\* up in another directory returns Ok, D/.safety_net itself holds an index
\* line with the file's hash and a backup file with its content.
C17_PerDirectory ==
    /\ [](\A r \in Procs :
            (/\ pc[r] = "destroy"
             /\ result[r] = "ok"
             /\ BackedUpElsewhere(Sha256Hex(files[req[r].path]),
                                  Append(Parent(req[r].path), SAFETY_NET))) =>
                LET path == req[r].path
                    dir == Append(Parent(path), SAFETY_NET)
                    idx == Append(dir, INDEX_TXT)
                IN  /\ idx \in DOMAIN files
                    /\ Sha256Hex(files[path]) \in LineSet(files[idx])
                    /\ \E p \in FilesIn(dir) : p # idx /\ files[p] = files[path])
    /\ [][\A r \in Procs :
            (pc[r] \in BackupPcs /\ Steps(r)) =>
                LET dir == Append(Parent(req[r].path), SAFETY_NET)
                IN  /\ \A p \in DOMAIN files \cup DOMAIN files' :
                           Parent(p) # dir =>
                               /\ p \in DOMAIN files /\ p \in DOMAIN files'
                               /\ files'[p] = files[p]
                    /\ dirs \subseteq dirs'
                    /\ dirs' \subseteq dirs \cup {dir}]_vars

\* C18: no lost index entries under concurrency.  When two concurrent calls
\* of create_backup on files of one directory with different content have
\* both returned Ok, the index holds both hashes, each exactly once and each
\* as a whole line, and both backup files exist.
C18_NoLostEntries ==
    \A r, q \in Procs :
        (/\ r # q
         /\ pc[r] = "destroy" /\ pc[q] = "destroy"
         /\ result[r] = "ok" /\ result[q] = "ok"
         /\ Parent(req[r].path) = Parent(req[q].path)
         /\ file_hash[r] # file_hash[q]) =>
            LET dir == Append(Parent(req[r].path), SAFETY_NET)
                idx == Append(dir, INDEX_TXT)
            IN  /\ idx \in DOMAIN files
                /\ CountLines(files[idx], file_hash[r]) = 1
                /\ CountLines(files[idx], file_hash[q]) = 1
                /\ \E p \in FilesIn(dir) : Sha256Hex(files[p]) = file_hash[r]
                /\ \E p \in FilesIn(dir) : Sha256Hex(files[p]) = file_hash[q]

\* The status C19 gives the rejected request x in the current state.
RightCode(x) ==
    IF x.path \notin DOMAIN files THEN x.code = "NOT_FOUND"
    ELSE /\ x.kind = "rename"
         /\ x.new_path \in dirs \cup DOMAIN files
         /\ x.code = "CONFLICT"

\* C19: rejected requests change nothing.  A request is accepted only when
\* its path is a regular file and, for a rename, nothing exists at the new
\* path; any other delete request is answered NOT_FOUND, a rename request
\* NOT_FOUND when its old path is no regular file and CONFLICT when its new
\* path exists, and then no backup is attempted and no file or directory is
\* created, removed or renamed.
C19_RejectedChangeNothing ==
    [][issued' # issued =>
        \/ \E r \in Procs :
               /\ pc[r] = "idle" /\ pc'[r] # "idle"
               /\ req'[r].path \in DOMAIN files
               /\ req'[r].kind = "rename"
                      => req'[r].new_path \notin dirs \cup DOMAIN files
               /\ rejected' = NoRejected
        \/ /\ pc' = pc
           /\ RightCode(rejected')
           /\ \E r \in Procs :
                  /\ pc[r] = "idle"
                  /\ status' = [status EXCEPT ![r] = rejected'.code]
           /\ files' = files
           /\ dirs' = dirs
           /\ log' = log
           /\ result' = result]_vars

\* C19's case: a request was answered NOT_FOUND and a rename request
\* CONFLICT.
C19_Witness ==
    /\ rejected.kind = "rename"
    /\ rejected.code = "CONFLICT"
    /\ \E r, q \in Procs : status[r] = "NOT_FOUND" /\ status[q] = "CONFLICT"

----------------------------------------------------------------------------
(* Renames racing for one free name *)

\* A directory where the name a.jpg is free: both rename requests of
\* RenameInputs pass the check of new_path.exists().
RaceFiles == (B_JPG :> X1) @@ (C_JPG :> X2)

InitRace == dirs = {D} /\ files = RaceFiles /\ InitService /\ limit = MaxRequests

SpecRace == InitRace /\ [][Next]_vars

====
